---- MODULE Spec2Model ----
(***************************************************************************)
(* A model of the tokenizer and the recursive-descent parser of            *)
(* src/test.py (Lexer, Parser), and of the cursor of the line-tracking     *)
(* lexer of src/ws.py.                                                     *)
(*                                                                         *)
(* A source text is a sequence of one-character strings.  The lexer's      *)
(* functions are operators over a lexer record [position, current_char]    *)
(* that return the lexer after the call, the token, and the exception the  *)
(* call raised ("none" when it returned).  The parser is a stack machine:  *)
(* one frame per active call, one action per parser function.              *)
(***************************************************************************)
EXTENDS Integers, Sequences, FiniteSets, TLC

VARIABLES
    text,           \* Lexer.text: the source, a sequence of characters
    position,       \* Lexer.position (0-based, as in the source)
    current_char,   \* Lexer.current_char (None past the end)
    tokens,         \* history: every token get_next_token has returned
    current_token,  \* Parser.current_token (NoToken before Parser.__init__)
    stack,          \* the parser's call stack, innermost call last
    ret,            \* the value the last finished call returned
    status,         \* "running", "returned", or the exception raised
    result,         \* what program() returned (NoResult before)
    source,         \* ws.Lexer.source, a sequence of characters
    length,         \* ws.Lexer.length
    index,          \* ws.Lexer.index (0-based)
    line,           \* ws.Lexer.line
    read            \* what the last call of ws.Lexer.current() returned

ws_vars == <<source, length, index, line, read>>

vars == <<text, position, current_char, tokens, current_token, stack, ret,
          status, result, ws_vars>>

lexer_vars == <<position, current_char>>
parser_vars == <<current_token, stack, ret, result>>

----------------------------------------------------------------------------
(* Characters *)

None == "None"
DQ == "\""
SQ == "'"
BS == "\\"
NL == "\n"
TAB == "\t"

DigitSeq == <<"0", "1", "2", "3", "4", "5", "6", "7", "8", "9">>
Digits == {DigitSeq[i] : i \in 1..Len(DigitSeq)}
Letters == {"a", "b", "c", "d", "e", "f", "g", "h", "i", "j", "k", "l", "m",
            "n", "o", "p", "q", "r", "s", "t", "u", "v", "w", "x", "y", "z",
            "T", "F"}

\* str.isspace, str.isdigit, str.isalpha, str.isalnum on the model's characters
isspace(c) == c \in {" ", NL, TAB}
isdigit(c) == c \in Digits
isalpha(c) == c \in Letters
isalnum(c) == isalpha(c) \/ isdigit(c)

----------------------------------------------------------------------------
(* Token types (src/test.py:2-8) and tokens *)

INTEGER == "INTEGER"
FLOAT == "FLOAT"
T_STRING == "STRING"   \* STRING in the source (a reserved word here)
CHAR == "CHAR"
PLUS == "PLUS"
MINUS == "MINUS"
MULTIPLY == "MULTIPLY"
DIVIDE == "DIVIDE"
MODULO == "MODULO"
LPAREN == "LPAREN"
RPAREN == "RPAREN"
IDENTIFIER == "IDENTIFIER"
ASSIGN == "ASSIGN"
KEYWORD == "KEYWORD"
EOF == "EOF"
COMMA == "COMMA"

Token(type, value) == [type |-> type, value |-> value]
NoToken == [type |-> "NoToken", value |-> None]

\* The reserved words of get_identifier, as character sequences
Keywords ==
    { <<"i","f">>, <<"e","l","i","f">>, <<"e","l","s","e">>,
      <<"m","a","t","c","h">>, <<"c","a","s","e">>, <<"f","o","r">>,
      <<"w","h","i","l","e">>, <<"f","u","n">>, <<"v","a","r">>,
      <<"c","o","n","s","t">>, <<"b","o","o","l">>, <<"c","h","a","r">>,
      <<"i","n","t">>, <<"f","l","o","a","t">>,
      <<"s","t","r","i","n","g">>, <<"e","n","u","m">>,
      <<"s","t","r","u","c","t">>, <<"l","i","s","t">>,
      <<"a","r","r","a","y">>, <<"T","r","u","e">>,
      <<"F","a","l","s","e">>, <<"r","e","t","u","r","n">> }

----------------------------------------------------------------------------
(* Python's int() and float() on the text get_number collected *)

DigitVal(c) == (CHOOSE i \in 1..Len(DigitSeq) : DigitSeq[i] = c) - 1

RECURSIVE IntOf(_)
IntOf(s) ==
    IF s = <<>> THEN 0
    ELSE 10 * IntOf(SubSeq(s, 1, Len(s) - 1)) + DigitVal(s[Len(s)])

DotCount(s) == Cardinality({i \in 1..Len(s) : s[i] = "."})

\* A decimal num / 10^scale in lowest form (no trailing zero in the fraction)
RECURSIVE Normalise(_, _)
Normalise(num, scale) ==
    IF scale > 0 /\ num % 10 = 0 THEN Normalise(num \div 10, scale - 1)
    ELSE [num |-> num, scale |-> scale]

\* Mutant: a lenient conversion that reads the run up to its second dot
FloatOf_up_to_second_dot(s) ==
    LET dots == {i \in 1..Len(s) : s[i] = "."}
        dot == CHOOSE i \in dots : \A j \in dots : i <= j
        later == {i \in dots : i > dot}
        stop == IF later = {} THEN Len(s)
                ELSE (CHOOSE i \in later : \A j \in later : i <= j) - 1
        digits == SubSeq(s, 1, dot - 1) \o SubSeq(s, dot + 1, stop)
    IN  [err |-> "none", value |-> Normalise(IntOf(digits), stop - dot)]

\* float(s) for s a run of digits and dots that starts with a digit: the
\* decimal value when s holds exactly one dot, ValueError otherwise
FloatOf(s) ==
    IF DotCount(s) # 1 THEN [err |-> "ValueError", value |-> None]
    ELSE LET dot == CHOOSE i \in 1..Len(s) : s[i] = "."
             digits == SubSeq(s, 1, dot - 1) \o SubSeq(s, dot + 1, Len(s))
         IN  [err |-> "none",
              value |-> Normalise(IntOf(digits), Len(s) - dot)]

----------------------------------------------------------------------------
(* Lexer (src/test.py:21-173).  l is the lexer: [position, current_char]. *)

Lexer_init(t) ==
    [position |-> 0, current_char |-> IF t # <<>> THEN t[1] ELSE None]

advance(l) ==
    LET p == l.position + 1
    IN  [position |-> p,
         current_char |-> IF p < Len(text) THEN text[p + 1] ELSE None]

RECURSIVE skip_whitespace(_)
skip_whitespace(l) ==
    IF l.current_char # None /\ isspace(l.current_char)
    THEN skip_whitespace(advance(l))
    ELSE l

\* What a lexer call hands back: the lexer after it, the token (NoToken
\* when it raised) and the exception ("none" when it returned)
Returns(l, tok) == [lex |-> l, tok |-> tok, err |-> "none"]
Raises(l, e) == [lex |-> l, tok |-> NoToken, err |-> e]

\* Lexer.error raises Exception("Invalid character")
Lexer_error == "Invalid character"

RECURSIVE number_loop(_, _)
number_loop(l, res) ==
    IF l.current_char # None /\ (isdigit(l.current_char) \/ l.current_char = ".")
    THEN number_loop(advance(l), Append(res, l.current_char))
    ELSE [lex |-> l, res |-> res]

\* Mutant: the number ends at the first dot
get_number_stops_at_dot(l) ==
    LET r == number_loop(l, <<>>)
        dots == {i \in 1..Len(r.res) : r.res[i] = "."}
        cut == IF dots = {} THEN Len(r.res)
               ELSE (CHOOSE i \in dots : \A j \in dots : i <= j) - 1
    IN  Returns([position |-> l.position + cut,
                 current_char |-> IF l.position + cut < Len(text)
                                  THEN text[l.position + cut + 1] ELSE None],
                Token(INTEGER, IntOf(SubSeq(r.res, 1, cut))))

get_number(l) ==
    LET r == number_loop(l, <<>>)
    IN  IF DotCount(r.res) > 0
        THEN LET f == FloatOf(r.res)
             IN  IF f.err # "none" THEN Raises(r.lex, f.err)
                 ELSE Returns(r.lex, Token(FLOAT, f.value))
        ELSE Returns(r.lex, Token(INTEGER, IntOf(r.res)))

\* The while loop of get_string; `res + None` is Python's TypeError
RECURSIVE string_loop(_, _)
string_loop(l, res) ==
    IF l.current_char # None /\ l.current_char # DQ
    THEN IF l.current_char = BS
         THEN LET l2 == advance(l)
              IN  IF l2.current_char = "n"
                  THEN string_loop(advance(l2), Append(res, NL))
                  ELSE IF l2.current_char = "t"
                  THEN string_loop(advance(l2), Append(res, TAB))
                  ELSE IF l2.current_char = None
                  THEN [lex |-> l2, res |-> res, err |-> "TypeError"]
                  ELSE string_loop(advance(l2), Append(res, l2.current_char))
         ELSE string_loop(advance(l), Append(res, l.current_char))
    ELSE [lex |-> l, res |-> res, err |-> "none"]

\* Mutant: the closing quote is left in the input
get_string_keeps_quote(l) ==
    LET r == string_loop(advance(l), <<>>)
    IN  IF r.err # "none" THEN Raises(r.lex, r.err)
        ELSE Returns(r.lex, Token(T_STRING, r.res))

get_string(l) ==
    LET r == string_loop(advance(l), <<>>)
    IN  IF r.err # "none" THEN Raises(r.lex, r.err)
        ELSE Returns(advance(r.lex), Token(T_STRING, r.res))

\* Mutant: the character is read ahead and the cursor left where it was
get_char_reads_ahead(l) ==
    Returns(l, Token(CHAR, advance(l).current_char))

get_char(l) ==
    LET l1 == advance(l)
    IN  IF l1.current_char = BS
        THEN LET l2 == advance(l1)
                 res == IF l2.current_char = "n" THEN NL
                        ELSE IF l2.current_char = "t" THEN TAB
                        ELSE l2.current_char
             IN  Returns(advance(l2), Token(CHAR, res))
        ELSE Returns(advance(l1), Token(CHAR, l1.current_char))

RECURSIVE identifier_loop(_, _)
identifier_loop(l, res) ==
    IF l.current_char # None /\ (isalnum(l.current_char) \/ l.current_char = "_")
    THEN identifier_loop(advance(l), Append(res, l.current_char))
    ELSE [lex |-> l, res |-> res]

\* Mutant: a word that starts with a reserved word is a keyword
get_identifier_by_prefix(l) ==
    LET r == identifier_loop(l, <<>>)
    IN  IF \E k \in Keywords :
               Len(k) <= Len(r.res) /\ SubSeq(r.res, 1, Len(k)) = k
        THEN Returns(r.lex, Token(KEYWORD, r.res))
        ELSE Returns(r.lex, Token(IDENTIFIER, r.res))

get_identifier(l) ==
    LET r == identifier_loop(l, <<>>)
    IN  IF r.res \in Keywords
        THEN Returns(r.lex, Token(KEYWORD, r.res))
        ELSE Returns(r.lex, Token(IDENTIFIER, r.res))

\* The single-character tokens of get_next_token
Punctuation(c) ==
    CASE c = "+" -> PLUS
      [] c = "-" -> MINUS
      [] c = "*" -> MULTIPLY
      [] c = "/" -> DIVIDE
      [] c = "%" -> MODULO
      [] c = "(" -> LPAREN
      [] c = ")" -> RPAREN
      [] c = "=" -> ASSIGN
      [] c = "," -> COMMA
      [] OTHER -> None

\* Mutant: an unrecognized character is taken for the end of the input
unrecognized_ends_input(l) == Returns(l, Token(EOF, None))

\* The last line of the loop body: no rule matched, self.error()
unrecognized(l) == Raises(l, Lexer_error)

\* Mutant: the EOF token is stepped over like a one-character token
end_of_text_advances(l) == Returns(advance(l), Token(EOF, None))

\* After the loop: return Token(EOF, None)
end_of_text(l) == Returns(l, Token(EOF, None))

RECURSIVE get_next_token(_)
get_next_token(l) ==
    LET c == l.current_char
    IN  IF c = None THEN end_of_text(l)
        ELSE IF isspace(c) THEN get_next_token(skip_whitespace(l))
        ELSE IF isdigit(c) THEN get_number(l)
        ELSE IF c \in {"+", "-", "*", "/", "%", "(", ")", "="}
        THEN Returns(advance(l), Token(Punctuation(c), c))
        ELSE IF c = DQ THEN get_string(l)
        ELSE IF c = SQ THEN get_char(l)
        ELSE IF c = "," THEN Returns(advance(l), Token(COMMA, c))
        ELSE IF isalpha(c) \/ c = "_" THEN get_identifier(l)
        ELSE unrecognized(l)

TheLexer == [position |-> position, current_char |-> current_char]

----------------------------------------------------------------------------
(* AST nodes (src/test.py:178-295).  Every Python value the parser handles *)
(* is a record tagged by `node`: the node classes, None, and lists.        *)

NoneNode == [node |-> "None"]
List(items) == [node |-> "list", items |-> items]
ListAppend(l, x) == List(Append(l.items, x))

NumberNode(token) == [node |-> "NumberNode", token |-> token, value |-> token.value]
StringNode(token) == [node |-> "StringNode", token |-> token, value |-> token.value]
CharNode(token) == [node |-> "CharNode", token |-> token, value |-> token.value]
VariableNode(token) == [node |-> "VariableNode", token |-> token, name |-> token.value]
AssignNode(left, op, right) ==
    [node |-> "AssignNode", left |-> left, op |-> op, right |-> right]
BinOpNode(left, op, right) ==
    [node |-> "BinOpNode", left |-> left, op |-> op, right |-> right]
\* IfNode.__init__ stores `elif_nodes if elif_nodes else []`
IfNode(condition, body, elif_nodes, else_body) ==
    [node |-> "IfNode", condition |-> condition, body |-> body,
     elif_nodes |-> IF elif_nodes.node = "list" /\ elif_nodes.items # <<>>
                    THEN elif_nodes ELSE List(<<>>),
     else_body |-> else_body]
ElifNode(condition, body) ==
    [node |-> "ElifNode", condition |-> condition, body |-> body]
WhileNode(condition, body) ==
    [node |-> "WhileNode", condition |-> condition, body |-> body]
ForNode(var_name, start, end, step, body) ==
    [node |-> "ForNode", var_name |-> var_name, start |-> start, end |-> end,
     step |-> step, body |-> body]
FunctionDefNode(name, params, body) ==
    [node |-> "FunctionDefNode", name |-> name, params |-> params, body |-> body]
FunctionCallNode(name, arguments) ==
    [node |-> "FunctionCallNode", name |-> name, arguments |-> arguments]
ReturnNode(value) == [node |-> "ReturnNode", value |-> value]

----------------------------------------------------------------------------
(* Parser (src/test.py:300-491) as a stack machine.                        *)
(*                                                                         *)
(* A frame is one active call: the function, the place in its body where   *)
(* it goes on when the call it made returns (pc), its argument and its     *)
(* locals.  An action runs the innermost call from its pc up to its next   *)
(* call, its return or its raise.  No function catches an exception, so a  *)
(* raise ends the run with the stack as it stood.                          *)

\* Parser.error raises Exception("Invalid syntax")
Parser_error == "Invalid syntax"

MaxNodes == 5      \* most items program() and block() collect in one list

\* The locals of each function, as they are before its first assignment
Locals(fn) ==
    CASE fn = "factor" -> [token |-> NoToken, node |-> NoneNode]
      [] fn \in {"term", "expr"} -> [node |-> NoneNode, op_token |-> NoToken]
      [] fn = "variable" -> [node |-> NoneNode]
      [] fn = "function_call" -> [name |-> NoneNode, arguments |-> NoneNode]
      [] fn = "argument_list" -> [args |-> List(<<>>)]
      [] fn = "if_statement" ->
             [elif_nodes |-> List(<<>>), else_body |-> NoneNode,
              condition |-> NoneNode, body |-> NoneNode,
              elif_condition |-> NoneNode]
      [] fn = "while_statement" -> [condition |-> NoneNode]
      [] fn = "for_statement" ->
             [var_name |-> <<>>, start |-> NoneNode, end |-> NoneNode,
              step |-> NoneNode]
      [] fn = "function_definition" -> [name |-> <<>>, params |-> NoneNode]
      [] fn = "parameter_list" -> [params |-> List(<<>>)]
      [] fn = "assignment_statement" -> [left |-> NoneNode, op |-> NoToken]
      [] fn = "block" -> [statements |-> List(<<>>)]
      [] fn = "program" -> [nodes |-> List(<<>>)]
      [] OTHER -> [none |-> NoneNode]

Frame(fn, arg) == [fn |-> fn, pc |-> "start", arg |-> arg, loc |-> Locals(fn)]

Top == stack[Len(stack)]
Active(fn) == status = "running" /\ stack # <<>> /\ Top.fn = fn

\* What a step of a call does next
Call(pc, loc, fn, arg) ==
    [kind |-> "call", pc |-> pc, loc |-> loc, fn |-> fn, arg |-> arg]
Return(value) == [kind |-> "return", value |-> value]
Raise(err) == [kind |-> "raise", err |-> err]

Apply(cmd) ==
    /\ UNCHANGED <<ws_vars, text, lexer_vars, tokens, current_token>>
    /\ IF cmd.kind = "call"
       THEN /\ stack' = Append([stack EXCEPT ![Len(stack)].pc = cmd.pc,
                                             ![Len(stack)].loc = cmd.loc],
                               Frame(cmd.fn, cmd.arg))
            /\ UNCHANGED <<ret, status, result>>
       ELSE IF cmd.kind = "return"
       THEN /\ stack' = SubSeq(stack, 1, Len(stack) - 1)
            /\ ret' = cmd.value
            /\ IF Len(stack) = 1
               THEN result' = cmd.value /\ status' = "returned"
               ELSE UNCHANGED <<result, status>>
       ELSE /\ status' = cmd.err
            /\ UNCHANGED <<stack, ret, result>>

\* self.current_token = self.lexer.get_next_token(), and where the caller
\* goes on after it
PullToken(after, value) ==
    LET r == get_next_token(TheLexer)
    IN  /\ position' = r.lex.position
        /\ current_char' = r.lex.current_char
        /\ IF r.err = "none"
           THEN /\ current_token' = r.tok
                /\ tokens' = Append(tokens, r.tok)
                /\ stack' = after
                /\ ret' = value
                /\ UNCHANGED status
           ELSE /\ status' = r.err
                /\ UNCHANGED <<current_token, tokens, stack, ret>>

\* parser = Parser(lexer); ast = parser.program()
Parser_init ==
    /\ status = "running"
    /\ stack = <<>>
    /\ current_token.type = "NoToken"
    /\ PullToken(<<Frame("program", None)>>, ret)
    /\ UNCHANGED <<ws_vars, text, result>>

\* Mutant: the next token is taken before the kind is checked
eat_pulls_first ==
    /\ Active("eat")
    /\ IF current_token.type = Top.arg
       THEN /\ PullToken(SubSeq(stack, 1, Len(stack) - 1), NoneNode)
            /\ UNCHANGED <<ws_vars, text, result>>
       ELSE LET r == get_next_token(TheLexer)
            IN  /\ position' = r.lex.position
                /\ current_char' = r.lex.current_char
                /\ tokens' = IF r.err = "none" THEN Append(tokens, r.tok)
                              ELSE tokens
                /\ status' = Parser_error
                /\ UNCHANGED <<ws_vars, text, current_token, stack, ret, result>>

eat ==
    /\ Active("eat")
    /\ IF current_token.type = Top.arg
       THEN /\ PullToken(SubSeq(stack, 1, Len(stack) - 1), NoneNode)
            /\ UNCHANGED <<ws_vars, text, result>>
       ELSE /\ status' = Parser_error
            /\ UNCHANGED <<ws_vars, text, lexer_vars, tokens, current_token, stack,
                           ret, result>>

\* Mutant: a factor may start with a minus sign, which gives a unary node
factor_with_unary_minus ==
    /\ Active("factor")
    /\ LET f == Top
           token == IF f.pc = "start" THEN current_token ELSE f.loc.token
       IN  Apply(
           IF f.pc = "start"
           THEN IF token.type \in {INTEGER, FLOAT, T_STRING, CHAR, IDENTIFIER}
                THEN Call("literal", [f.loc EXCEPT !.token = token],
                          "eat", token.type)
                ELSE IF token.type = LPAREN
                THEN Call("paren", f.loc, "eat", LPAREN)
                ELSE IF token.type = MINUS
                THEN Call("minus", [f.loc EXCEPT !.token = token], "eat", MINUS)
                ELSE Raise(Parser_error)
           ELSE IF f.pc = "minus" THEN Call("operand", f.loc, "factor", None)
           ELSE IF f.pc = "operand"
           THEN Return([node |-> "UnaryOpNode", op |-> token, operand |-> ret])
           ELSE IF f.pc = "literal"
           THEN IF token.type \in {INTEGER, FLOAT} THEN Return(NumberNode(token))
                ELSE IF token.type = T_STRING THEN Return(StringNode(token))
                ELSE IF token.type = CHAR THEN Return(CharNode(token))
                ELSE Return(VariableNode(token))
           ELSE IF f.pc = "paren" THEN Call("expr", f.loc, "expr", None)
           ELSE IF f.pc = "expr"
           THEN Call("rparen", [f.loc EXCEPT !.node = ret], "eat", RPAREN)
           ELSE Return(f.loc.node))

factor ==
    /\ Active("factor")
    /\ LET f == Top
           token == IF f.pc = "start" THEN current_token ELSE f.loc.token
       IN  Apply(
           IF f.pc = "start"
           THEN IF token.type \in {INTEGER, FLOAT, T_STRING, CHAR, IDENTIFIER}
                THEN Call("literal", [f.loc EXCEPT !.token = token],
                          "eat", token.type)
                ELSE IF token.type = LPAREN
                THEN Call("paren", f.loc, "eat", LPAREN)
                ELSE Raise(Parser_error)
           ELSE IF f.pc = "literal"
           THEN IF token.type \in {INTEGER, FLOAT} THEN Return(NumberNode(token))
                ELSE IF token.type = T_STRING THEN Return(StringNode(token))
                ELSE IF token.type = CHAR THEN Return(CharNode(token))
                ELSE Return(VariableNode(token))
           ELSE IF f.pc = "paren" THEN Call("expr", f.loc, "expr", None)
           ELSE IF f.pc = "expr"
           THEN Call("rparen", [f.loc EXCEPT !.node = ret], "eat", RPAREN)
           ELSE Return(f.loc.node))

\* The while loop of term: another operator, or the node built so far
term_loop(loc) ==
    IF current_token.type \in {MULTIPLY, DIVIDE, MODULO}
    THEN Call("op", [loc EXCEPT !.op_token = current_token],
              "eat", current_token.type)
    ELSE Return(loc.node)

\* Mutant: the loop of term takes the additive operators as well
term_takes_additive ==
    /\ Active("term")
    /\ LET f == Top
           loop(loc) ==
               IF current_token.type \in {MULTIPLY, DIVIDE, MODULO, PLUS, MINUS}
               THEN Call("op", [loc EXCEPT !.op_token = current_token],
                         "eat", current_token.type)
               ELSE Return(loc.node)
       IN  Apply(
           IF f.pc = "start" THEN Call("first", f.loc, "factor", None)
           ELSE IF f.pc = "first" THEN loop([f.loc EXCEPT !.node = ret])
           ELSE IF f.pc = "op" THEN Call("right", f.loc, "factor", None)
           ELSE loop([f.loc EXCEPT
                          !.node = BinOpNode(f.loc.node, f.loc.op_token, ret)]))

term ==
    /\ Active("term")
    /\ LET f == Top
       IN  Apply(
           IF f.pc = "start" THEN Call("first", f.loc, "factor", None)
           ELSE IF f.pc = "first" THEN term_loop([f.loc EXCEPT !.node = ret])
           ELSE IF f.pc = "op" THEN Call("right", f.loc, "factor", None)
           ELSE term_loop([f.loc EXCEPT
                               !.node = BinOpNode(f.loc.node, f.loc.op_token, ret)]))

\* The while loop of expr
expr_loop(loc) ==
    IF current_token.type \in {PLUS, MINUS}
    THEN Call("op", [loc EXCEPT !.op_token = current_token],
              "eat", current_token.type)
    ELSE Return(loc.node)

\* Mutant: the right operand is a whole expr, which nests to the right
expr_right_recursive ==
    /\ Active("expr")
    /\ LET f == Top
       IN  Apply(
           IF f.pc = "start" THEN Call("first", f.loc, "term", None)
           ELSE IF f.pc = "first" THEN expr_loop([f.loc EXCEPT !.node = ret])
           ELSE IF f.pc = "op" THEN Call("right", f.loc, "expr", None)
           ELSE expr_loop([f.loc EXCEPT
                               !.node = BinOpNode(f.loc.node, f.loc.op_token, ret)]))

expr ==
    /\ Active("expr")
    /\ LET f == Top
       IN  Apply(
           IF f.pc = "start" THEN Call("first", f.loc, "term", None)
           ELSE IF f.pc = "first" THEN expr_loop([f.loc EXCEPT !.node = ret])
           ELSE IF f.pc = "op" THEN Call("right", f.loc, "term", None)
           ELSE expr_loop([f.loc EXCEPT
                               !.node = BinOpNode(f.loc.node, f.loc.op_token, ret)]))

variable ==
    /\ Active("variable")
    /\ LET f == Top
       IN  Apply(
           IF f.pc = "start"
           THEN Call("eaten", [f.loc EXCEPT !.node = VariableNode(current_token)],
                     "eat", IDENTIFIER)
           ELSE Return(f.loc.node))

IsKeyword(tok, word) == tok.type = KEYWORD /\ tok.value = word

\* Mutant: the peek skips the whitespace before the parenthesis
statement_peeks_past_space ==
    /\ Active("statement")
    /\ LET f == Top
       IN  Apply(
           IF f.pc = "start"
           THEN IF current_token.type = KEYWORD
                THEN IF current_token.value = <<"i","f">>
                     THEN Call("called", f.loc, "if_statement", None)
                     ELSE IF current_token.value = <<"w","h","i","l","e">>
                     THEN Call("called", f.loc, "while_statement", None)
                     ELSE IF current_token.value = <<"f","o","r">>
                     THEN Call("called", f.loc, "for_statement", None)
                     ELSE IF current_token.value = <<"r","e","t","u","r","n">>
                     THEN Call("called", f.loc, "return_statement", None)
                     ELSE Return(NoneNode)
                ELSE IF current_token.type = IDENTIFIER
                THEN IF skip_whitespace(TheLexer).current_char = "("
                     THEN Call("called", f.loc, "function_call", None)
                     ELSE Call("called", f.loc, "assignment_statement", None)
                ELSE Raise(Parser_error)
           ELSE Return(ret))

statement ==
    /\ Active("statement")
    /\ LET f == Top
       IN  Apply(
           IF f.pc = "start"
           THEN IF current_token.type = KEYWORD
                THEN IF current_token.value = <<"i","f">>
                     THEN Call("called", f.loc, "if_statement", None)
                     ELSE IF current_token.value = <<"w","h","i","l","e">>
                     THEN Call("called", f.loc, "while_statement", None)
                     ELSE IF current_token.value = <<"f","o","r">>
                     THEN Call("called", f.loc, "for_statement", None)
                     ELSE IF current_token.value = <<"r","e","t","u","r","n">>
                     THEN Call("called", f.loc, "return_statement", None)
                     ELSE Return(NoneNode)
                ELSE IF current_token.type = IDENTIFIER
                THEN IF current_char = "("
                     THEN Call("called", f.loc, "function_call", None)
                     ELSE Call("called", f.loc, "assignment_statement", None)
                ELSE Raise(Parser_error)
           ELSE Return(ret))

return_statement ==
    /\ Active("return_statement")
    /\ LET f == Top
       IN  Apply(
           IF f.pc = "start" THEN Call("eaten", f.loc, "eat", KEYWORD)
           ELSE IF f.pc = "eaten" THEN Call("value", f.loc, "expr", None)
           ELSE Return(ReturnNode(ret)))

function_call ==
    /\ Active("function_call")
    /\ LET f == Top
       IN  Apply(
           IF f.pc = "start" THEN Call("name", f.loc, "variable", None)
           ELSE IF f.pc = "name"
           THEN Call("lparen", [f.loc EXCEPT !.name = ret], "eat", LPAREN)
           ELSE IF f.pc = "lparen"
           THEN Call("arguments", f.loc, "argument_list", None)
           ELSE IF f.pc = "arguments"
           THEN Call("rparen", [f.loc EXCEPT !.arguments = ret], "eat", RPAREN)
           ELSE Return(FunctionCallNode(f.loc.name, f.loc.arguments)))

\* The while loop of argument_list
argument_loop(loc) ==
    IF current_token.type = COMMA
    THEN Call("comma", loc, "eat", COMMA)
    ELSE Return(loc.args)

\* Mutant: each argument replaces the list instead of joining it
argument_list_keeps_last ==
    /\ Active("argument_list")
    /\ LET f == Top
       IN  Apply(
           IF f.pc = "start"
           THEN IF current_token.type # RPAREN
                THEN Call("arg", f.loc, "expr", None)
                ELSE Return(f.loc.args)
           ELSE IF f.pc = "arg"
           THEN argument_loop([f.loc EXCEPT !.args = List(<<ret>>)])
           ELSE Call("arg", f.loc, "expr", None))

argument_list ==
    /\ Active("argument_list")
    /\ LET f == Top
       IN  Apply(
           IF f.pc = "start"
           THEN IF current_token.type # RPAREN
                THEN Call("arg", f.loc, "expr", None)
                ELSE Return(f.loc.args)
           ELSE IF f.pc = "arg"
           THEN argument_loop([f.loc EXCEPT !.args = ListAppend(f.loc.args, ret)])
           ELSE Call("arg", f.loc, "expr", None))

\* if_statement after the elif loop: the else clause and the return
if_else(loc) ==
    IF IsKeyword(current_token, <<"e","l","s","e">>)
    THEN Call("else", loc, "eat", KEYWORD)
    ELSE Return(IfNode(loc.condition, loc.body, loc.elif_nodes, loc.else_body))

\* The while loop of if_statement
if_elif_loop(loc) ==
    IF IsKeyword(current_token, <<"e","l","i","f">>)
    THEN Call("elif", loc, "eat", KEYWORD)
    ELSE if_else(loc)

if_statement ==
    /\ Active("if_statement")
    /\ LET f == Top
       IN  Apply(
           IF f.pc = "start" THEN Call("eaten", f.loc, "eat", KEYWORD)
           ELSE IF f.pc = "eaten" THEN Call("condition", f.loc, "expr", None)
           ELSE IF f.pc = "condition"
           THEN Call("body", [f.loc EXCEPT !.condition = ret], "block", None)
           ELSE IF f.pc = "body" THEN if_elif_loop([f.loc EXCEPT !.body = ret])
           ELSE IF f.pc = "elif" THEN Call("elif_condition", f.loc, "expr", None)
           ELSE IF f.pc = "elif_condition"
           THEN Call("elif_body", [f.loc EXCEPT !.elif_condition = ret],
                     "block", None)
           ELSE IF f.pc = "elif_body"
           THEN if_elif_loop([f.loc EXCEPT !.elif_nodes =
                    ListAppend(f.loc.elif_nodes,
                               ElifNode(f.loc.elif_condition, ret))])
           ELSE IF f.pc = "else" THEN Call("else_body", f.loc, "block", None)
           ELSE Return(IfNode(f.loc.condition, f.loc.body, f.loc.elif_nodes, ret)))

while_statement ==
    /\ Active("while_statement")
    /\ LET f == Top
       IN  Apply(
           IF f.pc = "start" THEN Call("eaten", f.loc, "eat", KEYWORD)
           ELSE IF f.pc = "eaten" THEN Call("condition", f.loc, "expr", None)
           ELSE IF f.pc = "condition"
           THEN Call("body", [f.loc EXCEPT !.condition = ret], "block", None)
           ELSE Return(WhileNode(f.loc.condition, ret)))

for_statement ==
    /\ Active("for_statement")
    /\ LET f == Top
       IN  Apply(
           IF f.pc = "start" THEN Call("eaten", f.loc, "eat", KEYWORD)
           ELSE IF f.pc = "eaten" THEN Call("lparen", f.loc, "eat", LPAREN)
           ELSE IF f.pc = "lparen" THEN Call("var_name", f.loc, "variable", None)
           ELSE IF f.pc = "var_name"
           THEN Call("assign", [f.loc EXCEPT !.var_name = ret.name], "eat", ASSIGN)
           ELSE IF f.pc = "assign" THEN Call("start_expr", f.loc, "expr", None)
           ELSE IF f.pc = "start_expr"
           THEN Call("comma", [f.loc EXCEPT !.start = ret], "eat", COMMA)
           ELSE IF f.pc = "comma" THEN Call("end_expr", f.loc, "expr", None)
           ELSE IF f.pc = "end_expr"
           THEN IF current_token.type = COMMA
                THEN Call("comma2", [f.loc EXCEPT !.end = ret], "eat", COMMA)
                ELSE Call("rparen", [f.loc EXCEPT !.end = ret, !.step = NoneNode],
                          "eat", RPAREN)
           ELSE IF f.pc = "comma2" THEN Call("step_expr", f.loc, "expr", None)
           ELSE IF f.pc = "step_expr"
           THEN Call("rparen", [f.loc EXCEPT !.step = ret], "eat", RPAREN)
           ELSE IF f.pc = "rparen" THEN Call("body", f.loc, "block", None)
           ELSE Return(ForNode(f.loc.var_name, f.loc.start, f.loc.end,
                               f.loc.step, ret)))

function_definition ==
    /\ Active("function_definition")
    /\ LET f == Top
       IN  Apply(
           IF f.pc = "start" THEN Call("eaten", f.loc, "eat", KEYWORD)
           ELSE IF f.pc = "eaten" THEN Call("name", f.loc, "variable", None)
           ELSE IF f.pc = "name"
           THEN Call("lparen", [f.loc EXCEPT !.name = ret.name], "eat", LPAREN)
           ELSE IF f.pc = "lparen" THEN Call("params", f.loc, "parameter_list", None)
           ELSE IF f.pc = "params"
           THEN Call("rparen", [f.loc EXCEPT !.params = ret], "eat", RPAREN)
           ELSE IF f.pc = "rparen" THEN Call("body", f.loc, "block", None)
           ELSE Return(FunctionDefNode(f.loc.name, f.loc.params, ret)))

\* The while loop of parameter_list
parameter_loop(loc) ==
    IF current_token.type = COMMA
    THEN Call("comma", loc, "eat", COMMA)
    ELSE Return(loc.params)

parameter_list ==
    /\ Active("parameter_list")
    /\ LET f == Top
       IN  Apply(
           IF f.pc = "start"
           THEN IF current_token.type = IDENTIFIER
                THEN Call("param", f.loc, "variable", None)
                ELSE Return(f.loc.params)
           ELSE IF f.pc = "param"
           THEN parameter_loop([f.loc EXCEPT
                                    !.params = ListAppend(f.loc.params, ret.name)])
           ELSE Call("param", f.loc, "variable", None))

assignment_statement ==
    /\ Active("assignment_statement")
    /\ LET f == Top
       IN  Apply(
           IF f.pc = "start" THEN Call("left", f.loc, "variable", None)
           ELSE IF f.pc = "left"
           THEN Call("assign", [f.loc EXCEPT !.left = ret, !.op = current_token],
                     "eat", ASSIGN)
           ELSE IF f.pc = "assign" THEN Call("right", f.loc, "expr", None)
           ELSE Return(AssignNode(f.loc.left, f.loc.op, ret)))

\* The while loop of block
block_loop(loc) ==
    IF current_token.type # EOF
    THEN Call("statement", loc, "statement", None)
    ELSE Return(loc.statements)

\* Mutant: a block is the one statement that follows
block_one_statement ==
    /\ Active("block")
    /\ LET f == Top
       IN  Apply(IF f.pc = "start" THEN block_loop(f.loc)
                 ELSE Return(ListAppend(f.loc.statements, ret)))

\* The list may not outgrow MaxNodes: the loop is cut off there
block ==
    /\ Active("block")
    /\ LET f == Top
           loc == IF f.pc = "start" THEN f.loc
                  ELSE [f.loc EXCEPT
                            !.statements = ListAppend(f.loc.statements, ret)]
       IN  /\ current_token.type # EOF => Len(loc.statements.items) < MaxNodes
           /\ Apply(block_loop(loc))

\* The while loop of program
program_loop(loc) ==
    IF current_token.type # EOF
    THEN IF IsKeyword(current_token, <<"f","u","n">>)
         THEN Call("node", loc, "function_definition", None)
         ELSE Call("node", loc, "statement", None)
    ELSE Return(loc.nodes)

program ==
    /\ Active("program")
    /\ LET f == Top
           loc == IF f.pc = "start" THEN f.loc
                  ELSE [f.loc EXCEPT !.nodes = ListAppend(f.loc.nodes, ret)]
       IN  /\ current_token.type # EOF => Len(loc.nodes.items) < MaxNodes
           /\ Apply(program_loop(loc))

----------------------------------------------------------------------------
(* Source texts *)

MaxLen == 4        \* longest text of the literal families
MaxMixLen == 3     \* longest text of the mixed family
MaxEofCalls == 2   \* get_next_token calls made after the first EOF

Strs(A, n) == UNION {[1..k -> A] : k \in 0..n}

\* Runs of digits and dots
NumTexts == Strs({"0", "1", "7", "."}, MaxLen)

\* An opening double quote and what follows it
StrTexts ==
    {<<DQ>> \o s : s \in Strs({DQ, BS, "n", "t", "a"}, MaxLen)}
        \cup {<<DQ, "a", BS, "n", "b", DQ>>, <<DQ, "a", BS, DQ, "b", DQ, "a">>}

\* An opening single quote and what follows it
CharTexts ==
    {<<SQ>> \o s : s \in Strs({SQ, BS, "n", "t", "c"}, MaxLen)}

\* Words: every reserved word, alone and with one more character before
\* or after it, and short runs of word characters
IdentTexts ==
    Keywords
        \cup {k \o <<c>> : k \in Keywords, c \in {"y", "_", "1", " ", "("}}
        \cup {<<c>> \o k : k \in Keywords, c \in {"y", "_", "1", " "}}
        \cup {<<"i","f","f","y">>, <<"f","o","r","w","a","r","d">>}
        \cup Strs({"i", "f", "_", "1", " "}, MaxLen)

\* Everything get_next_token dispatches on
MixTexts ==
    Strs({"1", "x", " ", "+", "-", "*", "/", "%", "(", ")", "=", ",", "@",
          ".", DQ, SQ}, MaxMixLen)

LexTexts == NumTexts \cup StrTexts \cup CharTexts \cup IdentTexts \cup MixTexts

----------------------------------------------------------------------------
(* Source texts for the parser *)

MaxToks == 3       \* most lexemes in a text of the lexeme family
MaxExprLen == 5    \* longest right-hand side of the expression family

RECURSIVE Flatten(_)
Flatten(ss) == IF ss = <<>> THEN <<>> ELSE Head(ss) \o Flatten(Tail(ss))

\* Short programs over the lexemes the statement rules dispatch on
Lexemes ==
    { <<"x">>, <<"1">>, <<"=">>, <<"(">>, <<")">>, <<",">>, <<"+">>, <<"@">>,
      <<" ">>, <<"i","f"," ">>, <<"e","l","s","e"," ">>, <<"v","a","r"," ">>,
      <<"f","u","n"," ">>, <<"r","e","t","u","r","n"," ">>,
      <<"w","h","i","l","e"," ">> }
LexemeTexts == {Flatten(ss) : ss \in Strs(Lexemes, MaxToks)}

\* An assignment whose right-hand side is any short run of expression
\* characters
ExprTexts == {<<"x", "=">> \o e : e \in Strs({"1", "y", "-", "*", "(", ")"}, MaxExprLen)}

\* a op b op c for every pair of binary operators
BinOps == {"+", "-", "*", "/", "%"}
ChainTexts ==
    {<<"x", "=", a, o1, b, o2, "3">> :
        a \in {"1", "y"}, b \in {"2", "z"}, o1 \in BinOps, o2 \in BinOps}
        \cup {<<"x", "=", "1", o1, "y", o2, "3", o3, "z">> :
                  o1 \in BinOps, o2 \in BinOps, o3 \in BinOps}

\* Sample programs, with every prefix of each and each with one character
\* left out
Samples ==
    { <<"f", "o", "r", " ", "(", "i", " ", "=", " ", "0", ",", " ", "i",
          " ", "<", " ", "5", ",", " ", "i", " ", "=", " ", "i", " ",
          "+", " ", "1", ")", " ", "x", " ", "=", " ", "1">>,
      <<"f", "o", "r", "(", "i", "=", "0", ",", "i", ",", "i", "+", "1",
          ")", "x", "=", "1">>,
      <<"f", "o", "r", "(", "i", "=", "0", ",", "5", ")", "x", "=", "1",
          " ", "y", "=", "2">>,
      <<"f", "u", "n", " ", "a", "d", "d", "(", "a", ",", " ", "b", ")",
          " ", "r", "e", "t", "u", "r", "n", " ", "a", " ", "+", " ",
          "b">>,
      <<"f", "u", "n", " ", "f", "(", ")", "x", "=", "1">>,
      <<"a", "d", "d", "(", "5", ",", " ", "3", ")">>,
      <<"f", "(", ")", " ", "g", " ", "(", "1", ")">>,
      <<"i", "f", " ", "x", " ", "y", "=", "1", " ", "e", "l", "i", "f",
          " ", "x", " ", "y", "=", "2", " ", "e", "l", "s", "e", " ",
          "y", "=", "3">>,
      <<"i", "f", " ", "1", " ", "x", "=", "1">>,
      <<"w", "h", "i", "l", "e", " ", "x", " ", "y", "=", "f", "(", "1",
          ",", "2", ")", " ", "z", "=", "y">>,
      <<"x", "=", "1", " ", "r", "e", "t", "u", "r", "n", " ", "1", " ",
          "-", " ", "2", " ", "-", " ", "3">>,
      <<"v", "a", "r", " ", "x", " ", "=", " ", "1", "0">>,
      <<"x", " ", "=", " ", "(", "1", " ", "+", " ", SQ, "c", SQ, ")", " ",
          "*", " ", DQ, "s", DQ, " ", "%", " ", "2", ".", "5", " ",
          "/", " ", "y">>,
      <<"x", "=", "1", " ", "i", "f", " ", "y", " ", "w", "h", "i", "l",
          "e", " ", "z", " ", "r", "e", "t", "u", "r", "n", " ", "2">> }
Prefixes(p) == {SubSeq(p, 1, k) : k \in 0..Len(p)}
Deletions(p) == {SubSeq(p, 1, k - 1) \o SubSeq(p, k + 1, Len(p)) : k \in 1..Len(p)}
SampleTexts == UNION {Prefixes(p) \cup Deletions(p) : p \in Samples}

\* Call statements f(a1, ..., an): every list of up to MaxArgs arguments,
\* separated by a comma or by a comma and a space
MaxArgs == 3
ArgSources == {<<"5">>, <<"y">>, <<"1", "+", "y">>, <<"(", "3", ")">>}
ArgLists == Strs(ArgSources, MaxArgs)
Separators == {<<",">>, <<",", " ">>}
RECURSIVE Join(_, _)
Join(ss, sep) ==
    IF ss = <<>> THEN <<>>
    ELSE IF Len(ss) = 1 THEN ss[1]
    ELSE ss[1] \o sep \o Join(Tail(ss), sep)
CallText(args, sep) == <<"f", "(">> \o Join(args, sep) \o <<")">>
CallTexts == {CallText(a, sep) : a \in ArgLists, sep \in Separators}

\* Conditionals: if x y=1, then up to MaxElifs clauses elif x y=2, then
\* else y=3 or nothing
MaxElifs == 2
IfClause == <<"i", "f", " ", "x", " ", "y", "=", "1">>
ElifClause == <<" ", "e", "l", "i", "f", " ", "x", " ", "y", "=", "2">>
ElseClause == <<" ", "e", "l", "s", "e", " ", "y", "=", "3">>
RECURSIVE Repeat(_, _)
Repeat(t, k) == IF k = 0 THEN <<>> ELSE t \o Repeat(t, k - 1)
IfChainText(k, else) ==
    IfClause \o Repeat(ElifClause, k) \o (IF else THEN ElseClause ELSE <<>>)
IfChainTexts == {IfChainText(k, else) : k \in 0..MaxElifs, else \in BOOLEAN}

\* (1 op y) op 3 and 1 op (y op 3) for every pair of binary operators
ParenTexts ==
    {<<"x", "=", "(", "1", o1, "y", ")", o2, "3">> : o1 \in BinOps, o2 \in BinOps}
        \cup {<<"x", "=", "1", o1, "(", "y", o2, "3", ")">> :
                  o1 \in BinOps, o2 \in BinOps}

ParseTexts ==
    LexemeTexts \cup ExprTexts \cup ChainTexts \cup SampleTexts
        \cup CallTexts \cup IfChainTexts \cup ParenTexts

----------------------------------------------------------------------------
(* The cursor of the line-tracking lexer (src/ws.py:95-111) *)

NUL == "\\0"       \* the sentinel current() returns, "\0" in the source

MaxWsLen == 3      \* longest source of the line-tracking lexer
MaxPast == 2       \* advance() calls made past the end of the source

WsSources == Strs({"a", "b", NL}, MaxWsLen)

\* s[i] in Python: from the end for a negative i, IndexError out of range
PyIndex(s, i) ==
    IF 0 <= i /\ i < Len(s) THEN s[i + 1]
    ELSE IF i < 0 /\ -i <= Len(s) THEN s[Len(s) + i + 1]
    ELSE "IndexError"

\* Mutant: the end itself counts as inside the source
ws_eof_inclusive == index <= length

\* Lexer.eof
ws_eof == index < length

\* Lexer.current
ws_current == IF ws_eof THEN PyIndex(source, index) ELSE NUL

\* No ws.Lexer has been constructed
WsIdle ==
    /\ source = <<>>
    /\ length = 0
    /\ index = 0
    /\ line = 1
    /\ read = None

\* Lexer(path, source)
WsInit ==
    /\ source \in WsSources
    /\ length = Len(source)
    /\ index = 0
    /\ line = 1
    /\ read = None
    /\ text = <<>>
    /\ position = 0
    /\ current_char = None
    /\ tokens = <<>>
    /\ current_token = NoToken
    /\ stack = <<>>
    /\ ret = NoneNode
    /\ status = "running"
    /\ result = [node |-> "NoResult"]

\* Lexer.advance
WsAdvance ==
    /\ status = "running"
    /\ index < length + MaxPast
    /\ index' = index + 1
    /\ UNCHANGED <<source, length, line, read, text, lexer_vars, tokens,
                   parser_vars, status>>

\* A call of Lexer.current
WsCurrent ==
    /\ status = "running"
    /\ IF ws_current = "IndexError"
       THEN status' = "IndexError" /\ read' = read
       ELSE status' = status /\ read' = ws_current
    /\ UNCHANGED <<source, length, index, line, text, lexer_vars, tokens,
                   parser_vars>>

WsNext == WsAdvance \/ WsCurrent

WsSpec == WsInit /\ [][WsNext]_vars

----------------------------------------------------------------------------
(* The lexer driven directly: a client that calls get_next_token *)

NoResult == [node |-> "NoResult"]

EofCount == Cardinality({i \in 1..Len(tokens) : tokens[i].type = EOF})

LexInit ==
    /\ WsIdle
    /\ text \in LexTexts
    /\ position = Lexer_init(text).position
    /\ current_char = Lexer_init(text).current_char
    /\ tokens = <<>>
    /\ current_token = NoToken
    /\ stack = <<>>
    /\ ret = NoneNode
    /\ status = "running"
    /\ result = NoResult

\* One call of Lexer.get_next_token
LexerCall ==
    /\ status = "running"
    /\ EofCount <= MaxEofCalls
    /\ LET r == get_next_token(TheLexer)
       IN  /\ position' = r.lex.position
           /\ current_char' = r.lex.current_char
           /\ IF r.err = "none"
              THEN tokens' = Append(tokens, r.tok) /\ status' = status
              ELSE tokens' = tokens /\ status' = r.err
    /\ UNCHANGED <<ws_vars, text, parser_vars>>

LexNext == LexerCall

LexSpec == LexInit /\ [][LexNext]_vars

----------------------------------------------------------------------------
(* The parser run: lexer = Lexer(code); Parser(lexer).program() *)

Init ==
    /\ WsIdle
    /\ text \in ParseTexts
    /\ position = Lexer_init(text).position
    /\ current_char = Lexer_init(text).current_char
    /\ tokens = <<>>
    /\ current_token = NoToken
    /\ stack = <<>>
    /\ ret = NoneNode
    /\ status = "running"
    /\ result = NoResult

Next ==
    \/ Parser_init
    \/ eat
    \/ factor
    \/ term
    \/ expr
    \/ variable
    \/ statement
    \/ return_statement
    \/ function_call
    \/ argument_list
    \/ if_statement
    \/ while_statement
    \/ for_statement
    \/ function_definition
    \/ parameter_list
    \/ assignment_statement
    \/ block
    \/ program

Spec == Init /\ [][Next]_vars

----------------------------------------------------------------------------
(* Properties *)

Frames(fn) == {i \in 1..Len(stack) : stack[i].fn = fn}

\* C1: program() always returns or raises: its loop, and block()'s, cannot
\* run forever, because every iteration takes at least one token from the
\* finite token stream.  So a loop never holds as many items as tokens have
\* been pulled (the first pull is Parser.__init__'s).
C1_ParseLoopsTerminate ==
    /\ \A i \in Frames("program") :
           Len(stack[i].loc.nodes.items) < Len(tokens)
    /\ \A i \in Frames("block") :
           Len(stack[i].loc.statements.items) < Len(tokens)

\* C2 as stated: at the end of the text every call returns EOF, raises
\* nothing and leaves the cursor alone, and the cursor never passes
\* len(text).
EofCallIsIdempotent ==
    current_char = None =>
        /\ position' = position
        /\ current_char' = None
        /\ status' = "running"
        /\ tokens' = Append(tokens, Token(EOF, None))
C2_Original ==
    [][EofCallIsIdempotent]_vars /\ [](position <= Len(text))

\* C2 as amended: the same, with the cursor at most one past len(text), and
\* no character read there.
C2_EofIdempotentCursorBounded ==
    /\ [][EofCallIsIdempotent]_vars
    /\ [](/\ position <= Len(text) + 1
          /\ position >= Len(text) => current_char = None
          /\ position < Len(text) => current_char = text[position + 1])

C2_Witness ==
    /\ EofCount >= 2
    /\ position = Len(text) + 1
    /\ status = "running"

\* C3: a lex or parse call fails only with Lexer.error's or Parser.error's
\* exception.
C3_OnlyTwoErrors ==
    status \in {"running", "returned", Lexer_error, Parser_error}

\* The next character that is not whitespace, from the cursor on
NextChar ==
    LET rest == {i \in (position + 1)..Len(text) : ~isspace(text[i])}
    IN  IF rest = {} THEN None
        ELSE text[CHOOSE i \in rest : \A j \in rest : i <= j]

Recognized ==
    Digits \cup Letters \cup
        {"_", DQ, SQ, "+", "-", "*", "/", "%", "(", ")", "=", ","}

\* The parser is about to call get_next_token
Pulling ==
    /\ status = "running"
    /\ \/ stack = <<>> /\ current_token.type = "NoToken"
       \/ Active("eat") /\ current_token.type = Top.arg

\* C4: a get_next_token call that finds an unrecognized character next
\* raises the lexical error and produces no token, and the parse that asked
\* for the token ends with that error: no token, no node, no result.
C4_UnrecognizedCharacterAborts ==
    [][(Pulling /\ NextChar # None /\ NextChar \notin Recognized) =>
           /\ status' = "Invalid character"
           /\ tokens' = tokens
           /\ current_token' = current_token
           /\ stack' = stack
           /\ ret' = ret
           /\ result' = NoResult]_vars

C4_Witness ==
    /\ status = "Invalid character"
    /\ NextChar = "@"
    /\ Len(tokens) >= 2
    /\ Frames("eat") # {}

\* C5: eat(kind) with a current token of another kind raises the syntax
\* error and takes nothing from the lexer, and no node or result comes
\* back; with a current token of that kind it calls get_next_token once:
\* one more token, unless the lexer raised.  Every other syntax error
\* (factor, statement) likewise leaves the lexer alone.
C5_EatMismatchRaisesMatchPullsOne ==
    [][/\ (Active("eat") /\ current_token.type # Top.arg) =>
              /\ status' = "Invalid syntax"
              /\ tokens' = tokens
              /\ position' = position
              /\ current_char' = current_char
              /\ current_token' = current_token
              /\ stack' = stack
              /\ ret' = ret
              /\ result' = NoResult
       /\ (Active("eat") /\ current_token.type = Top.arg) =>
              \/ /\ status' = "running"
                 /\ Len(tokens') = Len(tokens) + 1
                 /\ current_token' = tokens'[Len(tokens')]
                 /\ position' >= position
                 /\ stack' = SubSeq(stack, 1, Len(stack) - 1)
              \/ /\ status' \notin {"running", "returned", "Invalid syntax"}
                 /\ tokens' = tokens
                 /\ current_token' = current_token
       /\ (status = "running" /\ status' = "Invalid syntax") =>
              /\ tokens' = tokens
              /\ position' = position
              /\ result' = NoResult]_vars

\* x = (1 with the closing parenthesis missing: eat(RPAREN) finds EOF
C5_Witness ==
    /\ status = "Invalid syntax"
    /\ Frames("eat") # {}
    /\ Top.arg = RPAREN
    /\ current_token.type = EOF
    /\ Len(tokens) >= 4

AllIn(s, A) == \A i \in 1..Len(s) : s[i] \in A
Dots(s) == {i \in 1..Len(s) : s[i] = "."}
Least(S) == CHOOSE i \in S : \A j \in S : i <= j

RECURSIVE Pow10(_)
Pow10(n) == IF n = 0 THEN 1 ELSE 10 * Pow10(n - 1)

\* The number a digit string denotes: the sum of digit * 10^place
RECURSIVE DecimalFrom(_, _)
DecimalFrom(s, i) ==
    IF i > Len(s) THEN 0
    ELSE DigitVal(s[i]) * Pow10(Len(s) - i) + DecimalFrom(s, i + 1)
DecimalValue(s) == DecimalFrom(s, 1)

DigitsOnly(s) == s # <<>> /\ AllIn(s, Digits)
OneDot(s) ==
    /\ AllIn(s, Digits \cup {"."})
    /\ Cardinality(Dots(s)) = 1
    /\ Len(s) >= 2

\* v = num / 10^scale is the decimal value of s, a digit string with one dot
IsDecimalOf(v, s) ==
    LET dot == Least(Dots(s))
        digits == SubSeq(s, 1, dot - 1) \o SubSeq(s, dot + 1, Len(s))
    IN  v.num * Pow10(Len(s) - dot) = DecimalValue(digits) * Pow10(v.scale)

\* The first call returns one token of the given kind over the whole text,
\* the next call EOF, and neither raises
WholeTextIsOneToken(kind) ==
    /\ status = "running"
    /\ Len(tokens) >= 1 => tokens[1].type = kind
    /\ Len(tokens) = 1 => position = Len(text)
    /\ Len(tokens) >= 2 => tokens[2].type = EOF

\* C6 as stated: a text of digits lexes to one INTEGER token with its
\* decimal value, a text of digits with exactly one dot to one FLOAT token
\* with its decimal value, and the next call returns EOF.
C6_Original ==
    /\ DigitsOnly(text) =>
           /\ WholeTextIsOneToken(INTEGER)
           /\ Len(tokens) >= 1 => tokens[1].value = DecimalValue(text)
    /\ OneDot(text) =>
           /\ WholeTextIsOneToken(FLOAT)
           /\ Len(tokens) >= 1 => IsDecimalOf(tokens[1].value, text)

\* C6 as amended: the same, for a text with one dot that starts with a
\* digit.
C6_NumbersLexToTheirValue ==
    /\ DigitsOnly(text) =>
           /\ WholeTextIsOneToken(INTEGER)
           /\ Len(tokens) >= 1 => tokens[1].value = DecimalValue(text)
    /\ (OneDot(text) /\ isdigit(text[1])) =>
           /\ WholeTextIsOneToken(FLOAT)
           /\ Len(tokens) >= 1 => IsDecimalOf(tokens[1].value, text)

C6_Witness ==
    /\ OneDot(text)
    /\ Len(text) >= 4
    /\ Len(tokens) = 2
    /\ tokens[1].type = FLOAT
    /\ tokens[1].value.scale >= 2
    /\ tokens[2].type = EOF

\* The backslashes right before place j of t, back to the opening quote
BackslashRun(t, j) ==
    j - Least({k \in 2..j : \A m \in k..(j - 1) : t[m] = BS})
\* The places of the double quotes that no backslash escapes
UnescapedQuotes(t) ==
    {j \in 2..Len(t) : t[j] = DQ /\ BackslashRun(t, j) % 2 = 0}

Escaped(c) == IF c = "n" THEN NL ELSE IF c = "t" THEN TAB ELSE c
\* The value of a literal's content: a backslash and the character after it
\* give one character, every other character itself
RECURSIVE Decode(_)
Decode(c) ==
    IF c = <<>> THEN <<>>
    ELSE IF c[1] = BS /\ Len(c) >= 2
    THEN <<Escaped(c[2])>> \o Decode(SubSeq(c, 3, Len(c)))
    ELSE <<c[1]>> \o Decode(Tail(c))

\* C7: a string literal that is closed lexes to a STRING token whose value
\* is the decoded content up to the first unescaped double quote, and the
\* cursor ends right after that quote; "a\nb" gives a, newline, b.
C7_StringLiteralDecoded ==
    (text # <<>> /\ text[1] = DQ /\ UnescapedQuotes(text) # {}) =>
        LET close == Least(UnescapedQuotes(text))
        IN  /\ tokens = <<>> => status = "running"
            /\ Len(tokens) >= 1 =>
                   /\ tokens[1].type = "STRING"
                   /\ tokens[1].value = Decode(SubSeq(text, 2, close - 1))
                   /\ text = <<DQ, "a", BS, "n", "b", DQ>> =>
                          tokens[1].value = <<"a", NL, "b">>
            /\ (Len(tokens) = 1 /\ status = "running") => position = close

C7_Witness ==
    /\ text = <<DQ, "a", BS, DQ, "b", DQ, "a">>
    /\ Len(tokens) = 1
    /\ tokens[1].value = <<"a", DQ, "b">>
    /\ position = 6

\* C8: a char literal 'c', or an escaped one, lexes to a CHAR token of
\* that one character, and the closing quote is consumed: the cursor ends
\* right after it.
C8_CharLiteralConsumed ==
    /\ (Len(text) >= 3 /\ text[1] = SQ /\ text[2] \notin {BS, SQ} /\ text[3] = SQ) =>
           /\ tokens = <<>> => status = "running"
           /\ Len(tokens) >= 1 =>
                  tokens[1].type = CHAR /\ tokens[1].value = text[2]
           /\ (Len(tokens) = 1 /\ status = "running") => position = 3
    /\ (Len(text) >= 4 /\ text[1] = SQ /\ text[2] = BS /\ text[4] = SQ) =>
           /\ tokens = <<>> => status = "running"
           /\ Len(tokens) >= 1 =>
                  tokens[1].type = CHAR /\ tokens[1].value = Escaped(text[3])
           /\ (Len(tokens) = 1 /\ status = "running") => position = 4

WordChar(c) == c \in Letters \cup Digits \cup {"_"}
\* The length of the longest prefix of t made of word characters
RunLen(t) ==
    CHOOSE k \in 0..Len(t) :
        /\ \A i \in 1..k : WordChar(t[i])
        /\ k = Len(t) \/ ~WordChar(t[k + 1])

\* C9: the maximal run of word characters at a letter or underscore lexes
\* to a KEYWORD token when the whole run is a reserved word and to an
\* IDENTIFIER token otherwise, carrying the run; iffy and forward are
\* identifiers.
C9_KeywordIffWholeRunReserved ==
    /\ (text # <<>> /\ text[1] \in Letters \cup {"_"}) =>
           LET run == SubSeq(text, 1, RunLen(text))
           IN  /\ tokens = <<>> => status = "running"
               /\ Len(tokens) >= 1 =>
                      /\ tokens[1].type =
                             IF run \in Keywords THEN KEYWORD ELSE IDENTIFIER
                      /\ tokens[1].value = run
               /\ (Len(tokens) = 1 /\ status = "running") =>
                      position = Len(run)
    /\ \A i \in 1..Len(tokens) :
           /\ tokens[i].type = KEYWORD => tokens[i].value \in Keywords
           /\ tokens[i].type = IDENTIFIER => tokens[i].value \notin Keywords
    /\ (text \in {<<"i","f","f","y">>, <<"f","o","r","w","a","r","d">>}
            /\ Len(tokens) >= 1) => tokens[1].type = IDENTIFIER

C9_Witness ==
    /\ text = <<"i","f","f","y">>
    /\ Len(tokens) = 2
    /\ tokens[1] = Token(IDENTIFIER, <<"i","f","f","y">>)

\* Operands and operators of a chain written one character each
AddOps == {"+", "-"}
MulOps == {"*", "/", "%"}
IsChain(e) ==
    /\ Len(e) >= 3
    /\ Len(e) % 2 = 1
    /\ \A i \in 1..Len(e) : i % 2 = 1 => e[i] \in Digits \cup Letters
    /\ \/ \A i \in 1..Len(e) : i % 2 = 0 => e[i] \in AddOps
       \/ \A i \in 1..Len(e) : i % 2 = 0 => e[i] \in MulOps

Operand(c) ==
    IF c \in Digits THEN NumberNode(Token(INTEGER, DigitVal(c)))
    ELSE VariableNode(Token(IDENTIFIER, <<c>>))
Operator(c) ==
    Token(CASE c = "+" -> PLUS [] c = "-" -> MINUS [] c = "*" -> MULTIPLY
            [] c = "/" -> DIVIDE [] c = "%" -> MODULO, c)

\* ((a op1 b) op2 c) ... for the first k characters of the chain e
RECURSIVE LeftNested(_, _)
LeftNested(e, k) ==
    IF k = 1 THEN Operand(e[1])
    ELSE BinOpNode(LeftNested(e, k - 2), Operator(e[k - 1]), Operand(e[k]))

\* C10: a chain of operands joined by operators of one precedence level
\* parses to the left-nested tree, and 1 - 2 - 3 to (1 - 2) - 3.
C10_ChainsNestLeft ==
    (Len(text) >= 5 /\ text[1] = "x" /\ text[2] = "="
         /\ IsChain(SubSeq(text, 3, Len(text)))) =>
        LET e == SubSeq(text, 3, Len(text))
        IN  /\ status \in {"running", "returned"}
            /\ status = "returned" =>
                   result = List(<<AssignNode(
                                       VariableNode(Token(IDENTIFIER, <<"x">>)),
                                       Token(ASSIGN, "="),
                                       LeftNested(e, Len(e)))>>)

C10_Witness ==
    /\ status = "returned"
    /\ text = <<"x", "=", "1", "-", "2", "-", "3">>
    /\ result.items[1].right.left.node = "BinOpNode"
    /\ result.items[1].right.right.node = "NumberNode"

\* The tree of each argument source
ArgTree(a) ==
    CASE a = <<"5">> -> Operand("5")
      [] a = <<"y">> -> Operand("y")
      [] a = <<"1", "+", "y">> ->
             BinOpNode(Operand("1"), Operator("+"), Operand("y"))
      [] a = <<"(", "3", ")">> -> Operand("3")

CallOf(name, trees) ==
    FunctionCallNode(VariableNode(Token(IDENTIFIER, name)), List(trees))

\* C11: the statement name(e1, ..., en) parses to one FunctionCallNode that
\* carries the identifier as its name and one expression tree per argument,
\* in source order, an empty list for name(); add(5, 3) gives add with the
\* literals 5 and 3.
C11_CallHoldsArgumentsInOrder ==
    /\ (Len(text) >= 2 /\ text[1] = "f" /\ text[2] = "(") =>
           \A a \in ArgLists, sep \in Separators :
               text = CallText(a, sep) =>
                   /\ status \in {"running", "returned"}
                   /\ status = "returned" =>
                          result = List(<<CallOf(<<"f">>,
                                      [i \in 1..Len(a) |-> ArgTree(a[i])])>>)
    /\ text = <<"a", "d", "d", "(", "5", ",", " ", "3", ")">> =>
           /\ status \in {"running", "returned"}
           /\ status = "returned" =>
                  result = List(<<CallOf(<<"a", "d", "d">>,
                                         <<Operand("5"), Operand("3")>>)>>)

C11_Witness ==
    /\ status = "returned"
    /\ text = CallText(<<<<"5">>, <<"1", "+", "y">>, <<"y">>>>, <<",", " ">>)
    /\ Len(result.items[1].arguments.items) = 3
    /\ result.items[1].arguments.items[2].node = "BinOpNode"

\* The for loop of the example program with a one-statement body
ForExample ==
    <<"f", "o", "r", " ", "(", "i", " ", "=", " ", "0", ",", " ", "i", " ",
      "<", " ", "5", ",", " ", "i", " ", "=", " ", "i", " ", "+", " ", "1",
      ")", " ", "x", " ", "=", " ", "1">>

AssignOf(name, tree) ==
    AssignNode(VariableNode(Token(IDENTIFIER, name)), Token(ASSIGN, "="), tree)

\* C12: for (i = 0, i < 5, i = i + 1) followed by one statement parses to
\* one ForNode with variable i, start 0, an end and a step expression, and
\* the statement as its body.
C12_ForExampleParses ==
    text = ForExample =>
        /\ status \in {"running", "returned"}
        /\ status = "returned" =>
               /\ Len(result.items) = 1
               /\ result.items[1].node = "ForNode"
               /\ result.items[1].var_name = <<"i">>
               /\ result.items[1].start = Operand("0")
               /\ result.items[1].end # NoneNode
               /\ result.items[1].step # NoneNode
               /\ result.items[1].body = List(<<AssignOf(<<"x">>, Operand("1"))>>)

\* The IfNode of IfChainText(k, else)
IfChainTree(k, else) ==
    IfNode(Operand("x"),
           List(<<AssignOf(<<"y">>, Operand("1"))>>),
           List([i \in 1..k |->
                    ElifNode(Operand("x"),
                             List(<<AssignOf(<<"y">>, Operand("2"))>>))]),
           IF else THEN List(<<AssignOf(<<"y">>, Operand("3"))>>)
           ELSE NoneNode)

\* C13: if expr block, then elif expr block clauses, then an optional else
\* block, parses to one IfNode with one ElifNode per elif clause in source
\* order and the else block as else_body (None without an else clause).  So
\* the parse does not fail, an elif or else keyword is taken by
\* if_statement and never starts a statement, and the result is that IfNode.
C13_IfChainParses ==
    \A k \in 0..MaxElifs, else \in BOOLEAN :
        text = IfChainText(k, else) =>
            /\ status \in {"running", "returned"}
            /\ ~ /\ Active("statement")
                 /\ Top.pc = "start"
                 /\ \/ IsKeyword(current_token, <<"e", "l", "i", "f">>)
                    \/ IsKeyword(current_token, <<"e", "l", "s", "e">>)
            /\ status = "returned" => result = List(<<IfChainTree(k, else)>>)

NumericText(s) == s # <<>> /\ AllIn(s, Digits \cup {"."})

LeftTree(a, o1, b, o2, c) ==
    BinOpNode(BinOpNode(Operand(a), Operator(o1), Operand(b)),
              Operator(o2), Operand(c))
RightTree(a, o1, b, o2, c) ==
    BinOpNode(Operand(a), Operator(o1),
              BinOpNode(Operand(b), Operator(o2), Operand(c)))

\* The right-hand side of x=... parses without error to the given tree
ParsesTo(tree) ==
    /\ status \in {"running", "returned"}
    /\ status = "returned" => result = List(<<AssignOf(<<"x">>, tree)>>)

Shape(t, pattern) ==
    /\ Len(t) = Len(pattern)
    /\ \A i \in 1..Len(t) :
           \/ pattern[i] = "a" /\ t[i] \in Digits \cup Letters
           \/ pattern[i] = "o" /\ t[i] \in BinOps
           \/ pattern[i] \notin {"a", "o"} /\ t[i] = pattern[i]

\* C15: multiplicative operators bind tighter than additive ones: a + b * c
\* parses to a + (b * c) and a * b + c to (a * b) + c, for every additive
\* and multiplicative operator, and a parenthesized expression is the
\* operand itself, with no node of its own.
C15_MultiplicativeBindsTighter ==
    /\ Shape(text, <<"x", "=", "a", "o", "a", "o", "a">>) =>
           /\ (text[4] \in AddOps /\ text[6] \in MulOps) =>
                  ParsesTo(RightTree(text[3], text[4], text[5], text[6], text[7]))
           /\ (text[4] \in MulOps /\ text[6] \in AddOps) =>
                  ParsesTo(LeftTree(text[3], text[4], text[5], text[6], text[7]))
    /\ Shape(text, <<"x", "=", "(", "a", "o", "a", ")", "o", "a">>) =>
           ParsesTo(LeftTree(text[4], text[5], text[6], text[8], text[9]))
    /\ Shape(text, <<"x", "=", "a", "o", "(", "a", "o", "a", ")">>) =>
           ParsesTo(RightTree(text[3], text[4], text[6], text[7], text[8]))
    /\ Shape(text, <<"x", "=", "(", "a", ")">>) => ParsesTo(Operand(text[4]))
    /\ Shape(text, <<"x", "=", "(", "(", "a", ")", ")">>) =>
           ParsesTo(Operand(text[5]))

C15_Witness ==
    /\ status = "returned"
    /\ text = <<"x", "=", "1", "-", "z", "%", "3">>
    /\ result.items[1].right.op.type = MINUS
    /\ result.items[1].right.right.op.type = MODULO

\* The nodes that own a block
Owners == {"IfNode", "WhileNode", "ForNode", "FunctionDefNode"}
OwnerOnlyLast(items) ==
    \A i \in 1..Len(items) : items[i].node \in Owners => i = Len(items)
NoOwner(items) == \A i \in 1..Len(items) : items[i].node \notin Owners

\* C16: block() returns only with EOF as the current token.  So a node that
\* owns a block is the last element of the list that holds it, in the list
\* program() returns and in every block: whatever follows the block's header
\* is in its body, and a list still being collected holds no such node.
C16_BlockEndsOnlyAtEof ==
    /\ [][(Active("block") /\ Len(stack') < Len(stack)) =>
              /\ current_token.type = EOF
              /\ current_token'.type = EOF
              /\ OwnerOnlyLast(ret'.items)]_vars
    /\ [](/\ status = "returned" => OwnerOnlyLast(result.items)
          /\ \A i \in Frames("block") : NoOwner(stack[i].loc.statements.items)
          /\ \A i \in Frames("program") : NoOwner(stack[i].loc.nodes.items))

\* x=1 if y while z return 2: the if owns the while, the while the return
C16_Witness ==
    /\ status = "returned"
    /\ Len(result.items) = 2
    /\ result.items[2].node = "IfNode"
    /\ Len(result.items[2].body.items) = 1
    /\ result.items[2].body.items[1].node = "WhileNode"
    /\ Len(result.items[2].body.items[1].body.items) = 1
    /\ result.items[2].body.items[1].body.items[1].node = "ReturnNode"

\* statement() is at its dispatch with an identifier as the current token
AtIdentifierStatement ==
    /\ Active("statement")
    /\ Top.pc = "start"
    /\ current_token.type = IDENTIFIER

\* C17: at a statement that starts with an identifier, the lexer's
\* current_char is the character right after the identifier's text, and
\* statement() calls function_call exactly when that character is "(" and
\* assignment_statement otherwise, also when whitespace stands before the
\* parenthesis; assignment_statement then eats ASSIGN, which raises the
\* syntax error unless the next token is "=".  Nothing else calls
\* function_call.
C17_CallIffRawNextCharIsParen ==
    /\ [][/\ AtIdentifierStatement =>
                 /\ position >= Len(current_token.value)
                 /\ SubSeq(text, position - Len(current_token.value) + 1,
                           position) = current_token.value
                 /\ current_char =
                        IF position < Len(text) THEN text[position + 1] ELSE None
                 /\ status' = "running"
                 /\ Len(stack') = Len(stack) + 1
                 /\ stack'[Len(stack')].fn =
                        IF current_char = "(" THEN "function_call"
                        ELSE "assignment_statement"
          /\ (Active("assignment_statement") /\ Top.pc = "left") =>
                 /\ Len(stack') = Len(stack) + 1
                 /\ stack'[Len(stack')].fn = "eat"
                 /\ stack'[Len(stack')].arg = ASSIGN
          /\ (Active("eat") /\ stack[Len(stack) - 1].fn = "assignment_statement"
                  /\ current_token.type # ASSIGN) =>
                 status' = Parser_error]_vars
    /\ [](\A i \in Frames("function_call") :
              /\ i > 1
              /\ stack[i - 1].fn = "statement")

\* f() g (1): f() is a call; g, with a space before the parenthesis, is
\* taken for an assignment and the parenthesis is not "="
C17_Witness ==
    /\ text = <<"f", "(", ")", " ", "g", " ", "(", "1", ")">>
    /\ status = Parser_error
    /\ Frames("assignment_statement") # {}
    /\ Top.fn = "eat"
    /\ current_token.type = LPAREN
    /\ stack[1].loc.nodes.items[1].node = "FunctionCallNode"

\* A tree of literals, variables and binary operations only
RECURSIVE IsExprTree(_)
IsExprTree(n) ==
    CASE n.node \in {"NumberNode", "StringNode", "CharNode", "VariableNode"} ->
             TRUE
      [] n.node = "BinOpNode" -> IsExprTree(n.left) /\ IsExprTree(n.right)
      [] OTHER -> FALSE

\* The kinds of the nodes of a tree, lists of nodes and None included
RECURSIVE Kinds(_)
Kinds(n) ==
    {n.node} \cup
    CASE n.node = "list" -> UNION {Kinds(n.items[i]) : i \in 1..Len(n.items)}
      [] n.node \in {"BinOpNode", "AssignNode"} -> Kinds(n.left) \cup Kinds(n.right)
      [] n.node = "IfNode" ->
             Kinds(n.condition) \cup Kinds(n.body) \cup Kinds(n.elif_nodes)
                 \cup Kinds(n.else_body)
      [] n.node \in {"ElifNode", "WhileNode"} -> Kinds(n.condition) \cup Kinds(n.body)
      [] n.node = "ForNode" ->
             Kinds(n.start) \cup Kinds(n.end) \cup Kinds(n.step) \cup Kinds(n.body)
      [] n.node = "FunctionDefNode" -> Kinds(n.body)
      [] n.node = "FunctionCallNode" -> Kinds(n.name) \cup Kinds(n.arguments)
      [] n.node = "ReturnNode" -> Kinds(n.value)
      [] n.node = "UnaryOpNode" -> Kinds(n.operand)
      [] OTHER -> {}

Operators == {PLUS, MINUS, MULTIPLY, DIVIDE, MODULO}

\* C18: every tree expr() returns (and term() and factor() with it) is made
\* of NumberNode, StringNode, CharNode, VariableNode and BinOpNode only; no
\* parse builds a UnaryOpNode; and factor() raises the syntax error on a
\* minus sign or any other operator.
C18_ExpressionsAreClosed ==
    /\ [][/\ (status = "running" /\ stack # <<>>
                  /\ Top.fn \in {"expr", "term", "factor"}
                  /\ Len(stack') < Len(stack)) => IsExprTree(ret')
          /\ (Active("factor") /\ Top.pc = "start"
                  /\ current_token.type \in Operators) =>
                 /\ status' = Parser_error
                 /\ stack' = stack
                 /\ tokens' = tokens]_vars
    /\ [](status = "returned" => "UnaryOpNode" \notin Kinds(result))

\* x=-1: the minus sign is where a factor should start
C18_Witness ==
    /\ text = <<"x", "=", "-", "1">>
    /\ status = Parser_error
    /\ Top.fn = "factor"
    /\ current_token.type = MINUS

NonEofCount == Cardinality({i \in 1..Len(tokens) : tokens[i].type # EOF})

\* C19: over any sequence of get_next_token calls the cursor never moves
\* back, and a call that returns a token other than EOF moves it forward;
\* so a text of n characters gives at most n tokens before EOF.
C19_LexerProgress ==
    /\ [][/\ position' >= position
          /\ (Len(tokens') > Len(tokens)
                  /\ tokens'[Len(tokens')].type # EOF) => position' > position]_vars
    /\ [](NonEofCount <= Len(text))

\* x+1: three characters, three tokens, then EOF
C19_Witness ==
    /\ text = <<"x", "+", "1">>
    /\ NonEofCount = 3
    /\ EofCount >= 1
    /\ position = 3

\* C20: however many advance() calls have been made from index = 0,
\* current() reads inside the source: it returns source[index] when
\* index < length and the sentinel when index >= length, never an
\* IndexError, and eof() is the test index < length that guards the read.
C20_CurrentStaysInBuffer ==
    /\ status = "running"
    /\ length = Len(source)
    /\ index >= 0
    /\ ws_eof <=> index < length
    /\ ws_current = IF index < length THEN source[index + 1] ELSE NUL
    /\ read \in {None, NUL} \cup {source[i] : i \in 1..Len(source)}

C20_Witness ==
    /\ length >= 2
    /\ index > length
    /\ read = NUL
    /\ status = "running"

====
